---- MODULE Spec2Model ----
(***************************************************************************)
(* Speaker identification and verification of the voice recognition        *)
(* service (backend/services/voice_service.py) over the profile store the  *)
(* routes keep (backend/routes/voice_routes.py), and the validation and    *)
(* preprocessing of recordings (backend/utils/audio_processor.py).         *)
(*                                                                         *)
(* Numbers.  A similarity score, a cosine distance and a threshold x are   *)
(* held as the integer x * Scale.  Every cosine score is a multiple of     *)
(* Unit = 60 and so is every Euclidean score against the probe, so the     *)
(* mean over 1..5 stored signatures is an exact integer.  A percentage p   *)
(* (score * 100) is held in the same units (p * Scale / 100), so           *)
(* round(p, 2) is rounding to a multiple of PctUnit.                       *)
(***************************************************************************)
EXTENDS Integers, Sequences, FiniteSets, TLC

VARIABLES config, registered_users, request, result, status_msg, extractions,
          steps, upload_folder, threads

vars == <<config, registered_users, request, result, status_msg, extractions,
          steps, upload_folder, threads>>

----------------------------------------------------------------------------
(* Bounds and the fixed-point scale *)

\* Total number of signatures held by the store, all profiles together.
MaxEmbeddings == 3

Unit == 2 * 2 * 3 * 5
PctUnit == 3 * Unit
Scale == 10000 * PctUnit

\* p percent as a score.
Pct(p) == (p * Scale) \div 100

Names == {"alice", "bob"}
ClaimedNames == Names \cup {"carol"}
AudioFiles == {"probe.wav", "corrupt.wav"}
Methods == {"cosine", "euclidean", "manhattan"}
Thresholds == {Pct(20), Pct(65), Pct(65) + Unit}

\* Signatures are opaque: 1 is the signature of probe.wav, 2..5 are the
\* signatures that enrolment can store.
ProbeEmbedding == 1
StoredEmbeddings == 2 .. 5

None == "<None>"
NoStatus == "<not classified>"
NoCall == [op |-> "none"]

----------------------------------------------------------------------------
(* The distance library (scipy.spatial.distance), tabulated over the       *)
(* signatures of the model: symmetric, zero on the diagonal.               *)

CosineTable ==
  << << Pct(0),   Pct(110), Pct(95), Pct(70), Pct(35) >>,
     << Pct(110), Pct(0),   Pct(40), Pct(90), Pct(120) >>,
     << Pct(95),  Pct(40),  Pct(0),  Pct(50), Pct(80) >>,
     << Pct(70),  Pct(90),  Pct(50), Pct(0),  Pct(20) >>,
     << Pct(35),  Pct(120), Pct(80), Pct(20), Pct(0) >> >>

\* Euclidean distances are held in units of 1 / Unit.  The signatures lie on
\* a line at 0, 1, 3, 1/3 and -1.
EuclideanTable ==
  << << 0,          Unit,           3 * Unit,       Unit \div 3,       Unit >>,
     << Unit,       0,              2 * Unit,       (2 * Unit) \div 3, 2 * Unit >>,
     << 3 * Unit,   2 * Unit,       0,              (8 * Unit) \div 3, 4 * Unit >>,
     << Unit \div 3, (2 * Unit) \div 3, (8 * Unit) \div 3, 0,       (4 * Unit) \div 3 >>,
     << Unit,       2 * Unit,       4 * Unit,       (4 * Unit) \div 3, 0 >> >>

cosine(u, v) == CosineTable[u][v]
euclidean(u, v) == EuclideanTable[u][v]

----------------------------------------------------------------------------
(* Arithmetic *)

RECURSIVE Sum(_)
Sum(s) == IF s = <<>> THEN 0 ELSE s[1] + Sum(Tail(s))

RECURSIVE SeqMax(_)
SeqMax(s) == IF Len(s) = 1 THEN s[1]
             ELSE LET m == SeqMax(Tail(s)) IN IF s[1] >= m THEN s[1] ELSE m

RECURSIVE SeqMin(_)
SeqMin(s) == IF Len(s) = 1 THEN s[1]
             ELSE LET m == SeqMin(Tail(s)) IN IF s[1] <= m THEN s[1] ELSE m

\* np.mean: exact, since every score is a multiple of Unit.
Mean(s) == Sum(s) \div Len(s)

\* n / d rounded to the nearest integer, ties to the even one (Python round).
RoundHalfEven(n, d) ==
  LET q == n \div d
      r == n % d
  IN IF 2 * r < d THEN q
     ELSE IF 2 * r > d THEN q + 1
     ELSE IF q % 2 = 0 THEN q ELSE q + 1

\* round(p, 2) of a percentage p.
round2(p) == PctUnit * RoundHalfEven(p, PctUnit)

----------------------------------------------------------------------------
(* VoiceRecognitionService *)

\* A call returns [ok |-> TRUE, value |-> v] or raises: [ok |-> FALSE, error |-> e].
Return(v) == [ok |-> TRUE, value |-> v]
Raise(e) == [ok |-> FALSE, error |-> e]

\* The recordings offered at enrolment and the signature each one yields.
SampleEmbedding ==
  [audio_path \in {"sample_2.wav", "sample_3.wav", "sample_4.wav",
                   "sample_5.wav"} |->
     CASE audio_path = "sample_2.wav" -> 2
       [] audio_path = "sample_3.wav" -> 3
       [] audio_path = "sample_4.wav" -> 4
       [] audio_path = "sample_5.wav" -> 5]

extract_embedding(audio_path) ==
  IF audio_path = "probe.wav" THEN Return(ProbeEmbedding)
  ELSE IF audio_path \in DOMAIN SampleEmbedding
    THEN Return(SampleEmbedding[audio_path])
  ELSE Raise("RuntimeError: Failed to extract voice embedding")

calculate_similarity_cosine(embedding1, embedding2) ==
  Scale - cosine(embedding1, embedding2)

calculate_similarity_euclidean(embedding1, embedding2) ==
  (Scale * Unit) \div (Unit + euclidean(embedding1, embedding2))

\* Any method other than "euclidean" taken as cosine.
calculate_similarity_lenient(embedding1, embedding2, method) ==
  IF method = "euclidean"
    THEN Return(calculate_similarity_euclidean(embedding1, embedding2))
    ELSE Return(calculate_similarity_cosine(embedding1, embedding2))

calculate_similarity(embedding1, embedding2, method) ==
  IF method = "cosine"
    THEN Return(calculate_similarity_cosine(embedding1, embedding2))
  ELSE IF method = "euclidean"
    THEN Return(calculate_similarity_euclidean(embedding1, embedding2))
  ELSE Raise("ValueError: Unknown similarity method")

\* The similarities of one profile's stored signatures to the probe, in order.
Similarities(new_embedding, user_embeddings, method) ==
  [i \in 1 .. Len(user_embeddings) |->
     calculate_similarity(new_embedding, user_embeddings[i], method).value]

\* The all_scores entry of one profile.
ScoreEntry(new_embedding, user, method) ==
  LET similarities == Similarities(new_embedding, user.voice_embeddings, method)
  IN [name |-> user.name,
      avg_score |-> Mean(similarities),
      max_score |-> SeqMax(similarities),
      min_score |-> SeqMin(similarities),
      num_samples |-> Len(similarities)]

\* all_scores as the loop appends it, before the sort.
AllScores(new_embedding, users, method) ==
  [i \in 1 .. Len(users) |-> ScoreEntry(new_embedding, users[i], method)]

\* The update taken on "avg_score >= best_score": the last of several equal
\* means wins.
RECURSIVE SelectBestLast(_, _)
SelectBestLast(all_scores, k) ==
  IF k = 0 THEN [best_match |-> None, best_score |-> 0]
  ELSE LET prev == SelectBestLast(all_scores, k - 1)
       IN IF all_scores[k].avg_score >= prev.best_score
            THEN [best_match |-> all_scores[k].name,
                  best_score |-> all_scores[k].avg_score]
            ELSE prev

\* best_match and best_score after the loop has seen the first k profiles:
\* both start at (None, 0.0) and change only on a strictly greater mean.
RECURSIVE SelectBest(_, _)
SelectBest(all_scores, k) ==
  IF k = 0 THEN [best_match |-> None, best_score |-> 0]
  ELSE LET prev == SelectBest(all_scores, k - 1)
       IN IF all_scores[k].avg_score > prev.best_score
            THEN [best_match |-> all_scores[k].name,
                  best_score |-> all_scores[k].avg_score]
            ELSE prev

\* x put into a list already sorted by non-increasing avg_score, behind every
\* entry whose avg_score is at least its own.
RECURSIVE InsertDescending(_, _)
InsertDescending(x, sorted) ==
  IF sorted = <<>> THEN <<x>>
  ELSE IF sorted[1].avg_score >= x.avg_score
    THEN <<sorted[1]>> \o InsertDescending(x, Tail(sorted))
  ELSE <<x>> \o sorted

\* The sort left out.
SortScoresOmitted(all_scores) == all_scores

\* all_scores.sort(key=avg_score, reverse=True): stable, so entries with equal
\* avg_score keep the order the loop appended them in.
RECURSIVE SortScores(_)
SortScores(all_scores) ==
  IF all_scores = <<>> THEN <<>>
  ELSE InsertDescending(all_scores[Len(all_scores)],
                        SortScores(SubSeq(all_scores, 1, Len(all_scores) - 1)))

MIN_DETECTION_THRESHOLD == Pct(30)
SILENCE_THRESHOLD == Pct(5)

\* Classify without its first branch.
ClassifyNoSilenceTier(best_score, best_match, threshold) ==
  IF best_score < MIN_DETECTION_THRESHOLD
    THEN [identified |-> FALSE, name |-> "Unknown Person Speaking",
          status_msg |-> "UNKNOWN SPEAKER"]
  ELSE IF best_score >= MIN_DETECTION_THRESHOLD /\ best_score < threshold
    THEN [identified |-> TRUE, name |-> best_match,
          status_msg |-> "LOW CONFIDENCE MATCH"]
  ELSE [identified |-> TRUE, name |-> best_match,
        status_msg |-> "SPEAKER IDENTIFIED"]

\* Classify with "<=" for "<" in its first branch.
ClassifySilenceInclusive(best_score, best_match, threshold) ==
  IF best_score <= SILENCE_THRESHOLD
    THEN [identified |-> FALSE, name |-> "Can't hear someone speaking",
          status_msg |-> "NO VOICE DETECTED"]
  ELSE IF best_score < MIN_DETECTION_THRESHOLD
    THEN [identified |-> FALSE, name |-> "Unknown Person Speaking",
          status_msg |-> "UNKNOWN SPEAKER"]
  ELSE IF best_score >= MIN_DETECTION_THRESHOLD /\ best_score < threshold
    THEN [identified |-> TRUE, name |-> best_match,
          status_msg |-> "LOW CONFIDENCE MATCH"]
  ELSE [identified |-> TRUE, name |-> best_match,
        status_msg |-> "SPEAKER IDENTIFIED"]

\* Classify with a low-confidence match not identified.
ClassifyLowConfidenceRejected(best_score, best_match, threshold) ==
  IF best_score < SILENCE_THRESHOLD
    THEN [identified |-> FALSE, name |-> "Can't hear someone speaking",
          status_msg |-> "NO VOICE DETECTED"]
  ELSE IF best_score < MIN_DETECTION_THRESHOLD
    THEN [identified |-> FALSE, name |-> "Unknown Person Speaking",
          status_msg |-> "UNKNOWN SPEAKER"]
  ELSE IF best_score >= MIN_DETECTION_THRESHOLD /\ best_score < threshold
    THEN [identified |-> FALSE, name |-> "Unknown Person Speaking",
          status_msg |-> "LOW CONFIDENCE MATCH"]
  ELSE [identified |-> TRUE, name |-> best_match,
        status_msg |-> "SPEAKER IDENTIFIED"]

\* Classify with "<=" for "<" against the caller's threshold.
ClassifyThresholdExclusive(best_score, best_match, threshold) ==
  IF best_score < SILENCE_THRESHOLD
    THEN [identified |-> FALSE, name |-> "Can't hear someone speaking",
          status_msg |-> "NO VOICE DETECTED"]
  ELSE IF best_score < MIN_DETECTION_THRESHOLD
    THEN [identified |-> FALSE, name |-> "Unknown Person Speaking",
          status_msg |-> "UNKNOWN SPEAKER"]
  ELSE IF best_score >= MIN_DETECTION_THRESHOLD /\ best_score <= threshold
    THEN [identified |-> TRUE, name |-> best_match,
          status_msg |-> "LOW CONFIDENCE MATCH"]
  ELSE [identified |-> TRUE, name |-> best_match,
        status_msg |-> "SPEAKER IDENTIFIED"]

\* The four-way if/elif chain.
Classify(best_score, best_match, threshold) ==
  IF best_score < SILENCE_THRESHOLD
    THEN [identified |-> FALSE, name |-> "Can't hear someone speaking",
          status_msg |-> "NO VOICE DETECTED"]
  ELSE IF best_score < MIN_DETECTION_THRESHOLD
    THEN [identified |-> FALSE, name |-> "Unknown Person Speaking",
          status_msg |-> "UNKNOWN SPEAKER"]
  ELSE IF best_score >= MIN_DETECTION_THRESHOLD /\ best_score < threshold
    THEN [identified |-> TRUE, name |-> best_match,
          status_msg |-> "LOW CONFIDENCE MATCH"]
  ELSE [identified |-> TRUE, name |-> best_match,
        status_msg |-> "SPEAKER IDENTIFIED"]

\* The empty-list check left out.
NoUsersRegisteredUnchecked(registered) == FALSE

\* "if not registered_users or len(registered_users) == 0"
NoUsersRegistered(registered) == Len(registered) = 0

\* One run of identify_speaker: what it returns (ret), the status it logs and
\* how often it called extract_embedding.
identify_run(audio_path, registered, threshold, method) ==
  IF NoUsersRegistered(registered)
    THEN [ret |-> [identified |-> FALSE, name |-> "No users registered",
                   confidence |-> 0, all_scores |-> <<>>,
                   threshold |-> threshold],
          status_msg |-> NoStatus, extractions |-> 0]
  ELSE
    LET extracted == extract_embedding(audio_path)
        first == calculate_similarity(ProbeEmbedding, ProbeEmbedding, method)
    IN IF ~extracted.ok
         THEN [ret |-> [identified |-> FALSE, name |-> "Error",
                        confidence |-> 0, error |-> extracted.error,
                        all_scores |-> <<>>],
               status_msg |-> NoStatus, extractions |-> 1]
       ELSE IF ~first.ok
         THEN [ret |-> [identified |-> FALSE, name |-> "Error",
                        confidence |-> 0, error |-> first.error,
                        all_scores |-> <<>>],
               status_msg |-> NoStatus, extractions |-> 1]
       ELSE
         LET all_scores == AllScores(extracted.value, registered, method)
             best == SelectBest(all_scores, Len(all_scores))
             tier == Classify(best.best_score, best.best_match, threshold)
         IN [ret |-> [identified |-> tier.identified,
                      name |-> tier.name,
                      confidence |-> round2(best.best_score),
                      all_scores |-> SortScores(all_scores),
                      threshold |-> round2(threshold),
                      method |-> method],
             status_msg |-> tier.status_msg, extractions |-> 1]

identify_speaker(audio_path, registered, threshold, method) ==
  identify_run(audio_path, registered, threshold, method).ret

\* The lookup taking the first profile whatever its name.
FindClaimedUserAnyName(registered, claimed_name) ==
  IF registered # <<>> THEN 1 ELSE 0

\* next((u for u in registered_users if u['name'] == claimed_name), None):
\* the index of the first profile of that name, 0 for None.
FindClaimedUser(registered, claimed_name) ==
  IF \E i \in 1 .. Len(registered) : registered[i].name = claimed_name
    THEN CHOOSE i \in 1 .. Len(registered) :
           /\ registered[i].name = claimed_name
           /\ \A j \in 1 .. (i - 1) : registered[j].name # claimed_name
    ELSE 0

\* The verdict with ">" for ">=".
VerdictExclusive(avg_score, max_score, threshold) == avg_score > threshold

\* The verdict taken from the best single signature.
VerdictByMax(avg_score, max_score, threshold) == max_score >= threshold

\* verified = bool(avg_score >= threshold)
Verdict(avg_score, max_score, threshold) == avg_score >= threshold

\* One run of verify_speaker: what it returns and how often it called
\* extract_embedding.  The similarity method is the default, cosine.
verify_run(audio_path, claimed_name, registered, threshold) ==
  LET claimed_user == FindClaimedUser(registered, claimed_name)
  IN IF claimed_user = 0
       THEN [ret |-> [verified |-> FALSE,
                      message |-> <<"User not registered", claimed_name>>,
                      confidence |-> 0],
             extractions |-> 0]
     ELSE
       LET extracted == extract_embedding(audio_path)
       IN IF ~extracted.ok
            THEN [ret |-> [verified |-> FALSE,
                           message |-> <<"Verification error", extracted.error>>,
                           confidence |-> 0],
                  extractions |-> 1]
          ELSE
            LET similarities ==
                  Similarities(extracted.value,
                               registered[claimed_user].voice_embeddings,
                               "cosine")
                avg_score == Mean(similarities)
                max_score == SeqMax(similarities)
                verified == Verdict(avg_score, max_score, threshold)
            IN [ret |-> [verified |-> verified,
                         message |-> IF verified
                                       THEN <<"Voice verified as", claimed_name>>
                                       ELSE <<"Voice does not match", claimed_name>>,
                         confidence |-> round2(avg_score),
                         max_confidence |-> round2(max_score)],
                extractions |-> 1]

verify_speaker(audio_path, claimed_name, registered, threshold) ==
  verify_run(audio_path, claimed_name, registered, threshold).ret

----------------------------------------------------------------------------
(* Enrolment: register_voice and calculate_optimal_threshold *)

\* The inner loop started at i itself.
InnerStartSelf(i) == i

\* for j in range(i + 1, len(embeddings))
InnerStart(i) == i + 1

\* The two nested loops: the similarities appended, in the order of the
\* appends, from the pair (i, j) onwards.  The method is the default one.
RECURSIVE PairLoop(_, _, _)
PairLoop(embeddings, i, j) ==
  IF i > Len(embeddings) THEN <<>>
  ELSE IF j > Len(embeddings)
    THEN PairLoop(embeddings, i + 1, InnerStart(i + 1))
  ELSE <<calculate_similarity(embeddings[i], embeddings[j], "cosine").value>>
       \o PairLoop(embeddings, i, j + 1)

PairSimilarities(embeddings) == PairLoop(embeddings, 1, InnerStart(1))

\* The extraction loop passing over the samples it fails on.
RECURSIVE ExtractAllSkipping(_)
ExtractAllSkipping(audio_paths) ==
  IF audio_paths = <<>> THEN Return(<<>>)
  ELSE LET embedding == extract_embedding(Head(audio_paths))
           rest == ExtractAllSkipping(Tail(audio_paths))
       IN IF embedding.ok THEN Return(<<embedding.value>> \o rest.value)
          ELSE rest

\* The extraction loop of register_voice: the embeddings in the order of the
\* paths, or the first exception.
RECURSIVE ExtractAll(_)
ExtractAll(audio_paths) ==
  IF audio_paths = <<>> THEN Return(<<>>)
  ELSE LET embedding == extract_embedding(Head(audio_paths))
       IN IF ~embedding.ok THEN embedding
          ELSE LET rest == ExtractAll(Tail(audio_paths))
               IN IF ~rest.ok THEN rest
                  ELSE Return(<<embedding.value>> \o rest.value)

register_voice(audio_paths, user_name) ==
  LET extracted == ExtractAll(audio_paths)
  IN IF ~extracted.ok
       THEN [success |-> FALSE, error |-> extracted.error]
     ELSE
       LET embeddings == extracted.value
           avg_similarity ==
             IF Len(embeddings) > 1
               THEN Mean(PairSimilarities(embeddings))
               ELSE Scale
       IN [success |-> TRUE,
           embeddings |-> embeddings,
           num_samples |-> Len(embeddings),
           avg_inter_similarity |-> avg_similarity]

\* Deviations and the standard deviation are held in multiples of StdUnit;
\* every mean of up to ten pairwise cosine similarities is such a multiple.
StdUnit == Scale \div 3000

\* The greatest r with r * r <= x.
ISqrt(x) == CHOOSE r \in 0 .. (2 * Scale) \div StdUnit :
              r * r <= x /\ x < (r + 1) * (r + 1)

RECURSIVE SumSquares(_, _)
SumSquares(s, m) ==
  IF s = <<>> THEN 0
  ELSE ((s[1] - m) \div StdUnit) * ((s[1] - m) \div StdUnit)
       + SumSquares(Tail(s), m)

\* np.std: the population standard deviation, to the resolution of StdUnit.
Std(s) == StdUnit * ISqrt(SumSquares(s, Mean(s)) \div Len(s))

\* The threshold returned as computed, without the clamp.
ClampOmitted(optimal_threshold) == optimal_threshold

\* max(0.5, min(0.8, optimal_threshold))
Clamp(optimal_threshold) ==
  LET upper == IF optimal_threshold < Pct(80) THEN optimal_threshold ELSE Pct(80)
  IN IF upper > Pct(50) THEN upper ELSE Pct(50)

calculate_optimal_threshold(user_embeddings) ==
  IF Len(user_embeddings) < 2 THEN Pct(65)
  ELSE LET similarities == PairSimilarities(user_embeddings)
           mean_sim == Mean(similarities)
           std_sim == Std(similarities)
       IN Clamp(mean_sim - std_sim)

----------------------------------------------------------------------------
(* AudioProcessor *)

\* Amplitudes, energies and zero-crossing rates x are held as x * AmpScale.
AmpScale == 10 * 1000

target_sr == 16000
MaxFileSize == 16 * 1024 * 1024

\* A decoded waveform: its length in samples at target_sr, its peak
\* amplitude, RMS energy and zero-crossing rate, and the transformations
\* that have changed it since it was loaded.
Waveforms ==
  {w \in [num_samples : {0, 2 * target_sr - 1, 2 * target_sr,
                          30 * target_sr, 30 * target_sr + 1},
           peak : {0, 9, 10, 5000},
           energy : {0, 5, 50, 3000},
           zero_crossing_rate : {50, 1500},
           history : {<<>>}] :
     /\ w.energy <= w.peak
     /\ (w.peak = 0) <=> (w.energy = 0)
     /\ w.num_samples = 0 => (w.peak = 0 /\ w.zero_crossing_rate = 50)}

EmptyWaveform ==
  [num_samples |-> 0, peak |-> 0, energy |-> 0, zero_crossing_rate |-> 50,
   history |-> <<>>]

\* What is at a path: nothing, or a file of some size that decodes to a
\* waveform or does not decode.
Recordings ==
  {[exists |-> FALSE, size |-> 0, decodable |-> FALSE, audio |-> EmptyWaveform]}
  \cup {[exists |-> TRUE, size |-> z, decodable |-> FALSE, audio |-> EmptyWaveform] :
          z \in {1000, MaxFileSize, MaxFileSize + 1}}
  \cup [exists : {TRUE}, size : {1000, MaxFileSize, MaxFileSize + 1},
         decodable : {TRUE}, audio : Waveforms]

\* (min_duration, max_duration) in seconds, as the callers may pass them.
DurationLimits == {<<2, 30>>, <<30, 2>>, <<0, 30>>}

load_audio(file) ==
  IF file.exists /\ file.decodable
    THEN Return([audio |-> file.audio, sr |-> target_sr])
    ELSE Raise("RuntimeError: Audio loading failed")

\* "duration < min_duration" with "<=".
TooShortInclusive(num_samples, sr, min_duration) ==
  num_samples <= min_duration * sr

\* duration < min_duration, where duration = len(audio) / sr
TooShort(num_samples, sr, min_duration) == num_samples < min_duration * sr

\* duration > max_duration
TooLong(num_samples, sr, max_duration) == num_samples > max_duration * sr

\* np.abs(audio).max(): no maximum of an empty array.
PeakAmplitude(audio) ==
  IF audio.num_samples = 0
    THEN Raise("ValueError: zero-size array to reduction operation maximum")
    ELSE Return(audio.peak)

\* The silence test taken on the RMS energy.
SilentByEnergy(peak, rms_energy) == rms_energy < AmpScale \div 100

\* np.abs(audio).max() < 0.001
Silent(peak, rms_energy) == peak < AmpScale \div 1000

\* The body of validate_audio's try block: what it returns, or what it raises.
validate_body(file, min_duration, max_duration) ==
  IF ~file.exists
    THEN Return([valid |-> FALSE, error |-> "Audio file not found"])
  ELSE IF file.size > MaxFileSize
    THEN Return([valid |-> FALSE, error |-> "File too large"])
  ELSE
    LET loaded == load_audio(file)
    IN IF ~loaded.ok THEN loaded
       ELSE
         LET audio == loaded.value.audio
             sr == loaded.value.sr
             peak == PeakAmplitude(audio)
         IN IF TooShort(audio.num_samples, sr, min_duration)
              THEN Return([valid |-> FALSE, error |-> "Audio too short",
                           duration |-> audio.num_samples])
            ELSE IF TooLong(audio.num_samples, sr, max_duration)
              THEN Return([valid |-> FALSE, error |-> "Audio too long",
                           duration |-> audio.num_samples])
            ELSE IF ~peak.ok THEN peak
            ELSE IF Silent(peak.value, audio.energy)
              THEN Return([valid |-> FALSE,
                           error |-> "Audio appears to be silent or too quiet"])
            ELSE Return([valid |-> TRUE,
                         duration |-> audio.num_samples,
                         sample_rate |-> sr,
                         num_samples |-> audio.num_samples,
                         energy |-> audio.energy,
                         zero_crossing_rate |-> audio.zero_crossing_rate])

\* validate_audio without its try/except.
validate_audio_unguarded(file, min_duration, max_duration) ==
  LET body == validate_body(file, min_duration, max_duration)
  IN IF body.ok THEN body.value ELSE body

\* validate_audio: the except clause turns whatever the body raises into a
\* result.  A duration is held as a number of samples at the sample rate.
validate_audio(file, min_duration, max_duration) ==
  LET body == validate_body(file, min_duration, max_duration)
  IN IF body.ok THEN body.value
     ELSE [valid |-> FALSE, error |-> "Validation error"]

\* reduce_noise: whatever fails inside is caught and the input returned.
reduce_noise(audio, fails) ==
  IF fails THEN audio
  ELSE [audio EXCEPT !.history = Append(@, "reduce_noise")]

\* trim_silence: whatever fails inside is caught and the input returned.
trim_silence(audio, fails) ==
  IF fails THEN audio
  ELSE [audio EXCEPT !.history = Append(@, "trim_silence")]

remove_dc_offset(audio) ==
  [audio EXCEPT !.history = Append(@, "remove_dc_offset")]

\* apply_pre_emphasis reads audio[0].
apply_pre_emphasis(audio) ==
  IF audio.num_samples = 0
    THEN Raise("IndexError: index 0 is out of bounds")
    ELSE Return([audio EXCEPT !.history = Append(@, "apply_pre_emphasis")])

target_level == (9 * AmpScale) \div 10

\* normalize_audio: scale to the target peak unless the peak is zero.
normalize_audio(audio) ==
  LET current_peak == PeakAmplitude(audio)
  IN IF ~current_peak.ok THEN current_peak
     ELSE IF current_peak.value > 0
       THEN Return([audio EXCEPT
                      !.peak = target_level,
                      !.energy = (@ * target_level) \div current_peak.value,
                      !.history = Append(@, "normalize_audio")])
     ELSE Return(audio)

\* The flags of preprocess, and which of the two guarded steps meets an
\* internal failure.
Flags == [apply_noise_reduction : BOOLEAN, apply_normalization : BOOLEAN,
          apply_trimming : BOOLEAN, apply_pre_emphasis : BOOLEAN]

StepFailures == [reduce_noise : BOOLEAN, trim_silence : BOOLEAN]

\* preprocess: ret is what the call returns or raises, steps the functions
\* it has called, in the order of the calls.  flags holds the four apply_
\* arguments, fails says which of the two guarded steps meets an internal
\* failure.
preprocess_run(file, flags, fails) ==
  LET apply_noise_reduction == flags.apply_noise_reduction
      apply_normalization == flags.apply_normalization
      apply_trimming == flags.apply_trimming
      apply_pre_emphasis_flag == flags.apply_pre_emphasis
      loaded == load_audio(file)
      s1 == <<"load_audio">>
  IN IF ~loaded.ok THEN [ret |-> loaded, steps |-> s1]
     ELSE
       LET sr == loaded.value.sr
           a2 == remove_dc_offset(loaded.value.audio)
           s2 == Append(s1, "remove_dc_offset")
           a3 == IF apply_noise_reduction
                   THEN reduce_noise(a2, fails.reduce_noise) ELSE a2
           s3 == IF apply_noise_reduction
                   THEN Append(s2, "reduce_noise") ELSE s2
           a4 == IF apply_trimming
                   THEN trim_silence(a3, fails.trim_silence) ELSE a3
           s4 == IF apply_trimming THEN Append(s3, "trim_silence") ELSE s3
           a5 == IF apply_pre_emphasis_flag
                   THEN apply_pre_emphasis(a4) ELSE Return(a4)
           s5 == IF apply_pre_emphasis_flag
                   THEN Append(s4, "apply_pre_emphasis") ELSE s4
       IN IF ~a5.ok THEN [ret |-> a5, steps |-> s5]
          ELSE
            LET a6 == IF apply_normalization
                        THEN normalize_audio(a5.value) ELSE a5
                s6 == IF apply_normalization
                        THEN Append(s5, "normalize_audio") ELSE s5
            IN IF ~a6.ok THEN [ret |-> a6, steps |-> s6]
               ELSE [ret |-> Return([audio |-> a6.value, sr |-> sr]),
                     steps |-> s6]

----------------------------------------------------------------------------
(* Config and the two routes that take a threshold *)

\* Config with the defaults of config.py and the given SIMILARITY_THRESHOLD.
Config(similarity_threshold) ==
  [SIMILARITY_THRESHOLD |-> similarity_threshold,
   MIN_AUDIO_DURATION |-> 2,
   MAX_AUDIO_DURATION |-> 30]

\* Config.validate: the error messages (the MongoDB URI is taken as set).
Config_validate(cfg) ==
  (IF ~(0 <= cfg.SIMILARITY_THRESHOLD /\ cfg.SIMILARITY_THRESHOLD <= Scale)
     THEN <<"SIMILARITY_THRESHOLD must be between 0.0 and 1.0">> ELSE <<>>)
  \o (IF cfg.MIN_AUDIO_DURATION <= 0
        THEN <<"MIN_AUDIO_DURATION must be positive">> ELSE <<>>)
  \o (IF cfg.MAX_AUDIO_DURATION <= cfg.MIN_AUDIO_DURATION
        THEN <<"MAX_AUDIO_DURATION must be greater than MIN_AUDIO_DURATION">>
        ELSE <<>>)

\* The validation on import: the errors are printed and the import goes on,
\* whatever they are.
ImportProceeds(errors) == TRUE

\* The form field 'threshold': absent, a number, or text that is no number.
FormThresholds ==
  {[present |-> FALSE, numeric |-> FALSE, value |-> 0],
   [present |-> TRUE, numeric |-> FALSE, value |-> 0],
   [present |-> TRUE, numeric |-> TRUE, value |-> Pct(65)],
   [present |-> TRUE, numeric |-> TRUE, value |-> Pct(150)]}

\* float(request.form.get('threshold', config.SIMILARITY_THRESHOLD))
float_threshold(form_threshold, cfg) ==
  IF ~form_threshold.present THEN Return(cfg.SIMILARITY_THRESHOLD)
  ELSE IF form_threshold.numeric THEN Return(form_threshold.value)
  ELSE Raise("ValueError: could not convert string to float")

\* The flags the routes pass to preprocess: pre-emphasis stays off.
RouteFlags ==
  [apply_noise_reduction |-> TRUE, apply_normalization |-> TRUE,
   apply_trimming |-> TRUE, apply_pre_emphasis |-> FALSE]

JsonResponse(status, body) == [status |-> status, body |-> body]

ALLOWED_EXTENSIONS == {"wav", "mp3", "m4a", "ogg", "flac"}

\* filename.rsplit('.', 1)[1].lower() for the file names of the model; a name
\* without a dot has none.
Extension(filename) ==
  CASE filename = "voice.wav" -> "wav"
    [] filename = "other.wav" -> "wav"
    [] filename = "notes.txt" -> "txt"
    [] OTHER -> "<no dot>"

allowed_file(filename, allowed_extensions) ==
  Extension(filename) \in allowed_extensions

\* A path in the upload folder.  The routes build the file name from a
\* prefix ("identify", "verify" or the user name), the time of day to the
\* second, the number of the sample (register only) and the name the client
\* gave the file; the preprocessed copy has "_processed" put before the dot.
UploadPath(prefix, timestamp, sample, filename) ==
  [prefix |-> prefix, timestamp |-> timestamp, sample |-> sample,
   filename |-> filename, processed |-> FALSE]

ProcessedPath(path) == [path EXCEPT !.processed = TRUE]

\* The upload folder is a set of files, one per path: what was uploaded in
\* the file (content) and on behalf of which request it was written.
save_file(folder, path, content, writer) ==
  {f \in folder : f.path # path}
  \cup {[path |-> path, content |-> content, writer |-> writer]}

remove_file(folder, path) == {f \in folder : f.path # path}

RECURSIVE remove_files(_, _)
remove_files(folder, paths) ==
  IF paths = <<>> THEN folder
  ELSE remove_files(remove_file(folder, Head(paths)), Tail(paths))

file_exists(folder, path) == \E f \in folder : f.path = path

\* What the environment does to one request: whether noise reduction or
\* trimming meets an internal failure, whether save_audio can write the
\* preprocessed copy, how the database answers, and the second in which the
\* request is served.
Environment(reduce_noise_fails, trim_fails, save_audio_fails, database, timestamp) ==
  [reduce_noise |-> reduce_noise_fails, trim_silence |-> trim_fails,
   save_audio |-> save_audio_fails, database |-> database,
   timestamp |-> timestamp]

\* The functions a route has called on a sample, as (function, sample).
Calls(names, sample) == [k \in 1 .. Len(names) |-> <<names[k], sample>>]

\* POST /identify: the response, the upload folder afterwards, and what the
\* service did on the way.  The writer is the request itself.
identify_route(upload, form_threshold, registered, cfg, env, folder) ==
  LET threshold == float_threshold(form_threshold, cfg)
      filepath == UploadPath("identify", env.timestamp, 0, upload.filename)
      processed_path == ProcessedPath(filepath)
      saved == save_file(folder, filepath, upload, "request")
      validation == validate_audio(upload.file, cfg.MIN_AUDIO_DURATION,
                                   cfg.MAX_AUDIO_DURATION)
      pre == preprocess_run(upload.file, RouteFlags, env)
      both == save_file(saved, processed_path, upload, "request")
      validated == <<<<"validate_audio", 0>>>>
      preprocessed == validated \o Calls(pre.steps, 0)
  IN IF ~allowed_file(upload.filename, ALLOWED_EXTENSIONS)
       THEN [response |-> JsonResponse(400, [success |-> FALSE,
                                             error |-> "Invalid file format"]),
             status_msg |-> NoStatus, extractions |-> 0, steps |-> <<>>,
             folder |-> folder]
     ELSE IF ~threshold.ok
       THEN [response |-> JsonResponse(500, [success |-> FALSE,
                                             error |-> "Server error"]),
             status_msg |-> NoStatus, extractions |-> 0, steps |-> <<>>,
             folder |-> folder]
     ELSE IF ~validation.valid
       THEN [response |-> JsonResponse(400, [success |-> FALSE,
                                             error |-> validation.error]),
             status_msg |-> NoStatus, extractions |-> 0, steps |-> validated,
             folder |-> remove_file(saved, filepath)]
     ELSE IF ~pre.ret.ok \/ env.save_audio
       THEN [response |-> JsonResponse(500, [success |-> FALSE,
                                 error |-> "Audio preprocessing failed"]),
             status_msg |-> NoStatus, extractions |-> 0,
             steps |-> preprocessed,
             folder |-> remove_file(saved, filepath)]
     ELSE IF env.database = "OperationFailure"
       THEN [response |-> JsonResponse(500, [success |-> FALSE,
                                             error |-> "Database error"]),
             status_msg |-> NoStatus, extractions |-> 0,
             steps |-> preprocessed,
             folder |-> remove_files(both, <<filepath, processed_path>>)]
     ELSE IF env.database # "ok"
       THEN [response |-> JsonResponse(500, [success |-> FALSE,
                                             error |-> "Server error"]),
             status_msg |-> NoStatus, extractions |-> 0,
             steps |-> preprocessed,
             folder |-> both]
     ELSE
       LET run == identify_run(upload.audio_path, registered,
                               threshold.value, "cosine")
       IN [response |-> JsonResponse(200, [success |-> TRUE,
                                           result |-> run.ret]),
           status_msg |-> run.status_msg, extractions |-> run.extractions,
           steps |-> preprocessed \o
                     (IF run.extractions > 0
                        THEN <<<<"extract_embedding", 0>>>> ELSE <<>>),
           folder |-> remove_files(both, <<filepath, processed_path>>)]

\* POST /verify with a claimed name: no extension check and no
\* validate_audio here, and one except clause for everything.
verify_route(upload, claimed_name, form_threshold, registered, cfg, env, folder) ==
  LET threshold == float_threshold(form_threshold, cfg)
      filepath == UploadPath("verify", env.timestamp, 0, upload.filename)
      processed_path == ProcessedPath(filepath)
      saved == save_file(folder, filepath, upload, "request")
      pre == preprocess_run(upload.file, RouteFlags, env)
      both == save_file(saved, processed_path, upload, "request")
      preprocessed == Calls(pre.steps, 0)
  IN IF ~threshold.ok
       THEN [response |-> JsonResponse(500, [success |-> FALSE,
                                             error |-> threshold.error]),
             extractions |-> 0, steps |-> <<>>, folder |-> folder]
     ELSE IF ~pre.ret.ok
       THEN [response |-> JsonResponse(500, [success |-> FALSE,
                                             error |-> pre.ret.error]),
             extractions |-> 0, steps |-> preprocessed, folder |-> saved]
     ELSE IF env.save_audio
       THEN [response |-> JsonResponse(500, [success |-> FALSE,
                                             error |-> "save_audio failed"]),
             extractions |-> 0, steps |-> preprocessed, folder |-> saved]
     ELSE IF env.database # "ok"
       THEN [response |-> JsonResponse(500, [success |-> FALSE,
                                             error |-> env.database]),
             extractions |-> 0, steps |-> preprocessed,
             folder |-> both]
     ELSE
       LET run == verify_run(upload.audio_path, claimed_name, registered,
                             threshold.value)
       IN [response |-> JsonResponse(200, [success |-> TRUE,
                                           result |-> run.ret]),
           extractions |-> run.extractions,
           steps |-> preprocessed \o
                     (IF run.extractions > 0
                        THEN <<<<"extract_embedding", 0>>>> ELSE <<>>),
           folder |-> remove_files(both, <<filepath, processed_path>>)]

\* len(user_name) for the names of the model.
NameLength(user_name) == IF user_name = "x" THEN 1 ELSE 5

\* The limit on the number of files one too high.
MaxSamplesUnchecked == 5 + 1

\* len(audio_files) > 5
MaxSamplesPerUser == 5

\* One turn of the loop of register_user, on file i: the file is checked for
\* its extension, saved, validated, preprocessed and its preprocessed copy
\* saved.  validation and pre are what validate_audio and preprocess give
\* for it; acc holds audio_paths, processed_paths, the upload folder and the
\* calls made so far.
RECURSIVE save_samples(_, _, _)
save_sample(req, i, acc, validation, pre) ==
  LET audio_file == req.audio_files[i]
      filepath == UploadPath(req.user_name, req.env.timestamp, i,
                             audio_file.filename)
      processed_path == ProcessedPath(filepath)
      saved == save_file(acc.folder, filepath, audio_file, "request")
      audio_paths == Append(acc.audio_paths, filepath)
      validated == Append(acc.steps, <<"validate_audio", i>>)
      preprocessed == validated \o Calls(pre.steps, i)
  IN IF ~allowed_file(audio_file.filename, ALLOWED_EXTENSIONS)
       THEN [failed |-> TRUE,
             response |-> JsonResponse(400, [success |-> FALSE,
                                             error |-> "Invalid file format"])]
            @@ acc
     ELSE IF ~validation.valid
       THEN [failed |-> TRUE,
             response |-> JsonResponse(400, [success |-> FALSE,
                                             error |-> validation.error]),
             audio_paths |-> audio_paths,
             processed_paths |-> acc.processed_paths,
             folder |-> remove_files(saved, audio_paths),
             steps |-> validated]
     ELSE IF ~pre.ret.ok \/ req.env.save_audio
       THEN [failed |-> TRUE,
             response |-> JsonResponse(500, [success |-> FALSE,
                                 error |-> "Audio preprocessing failed"]),
             audio_paths |-> audio_paths,
             processed_paths |-> acc.processed_paths,
             folder |-> remove_files(saved,
                                     audio_paths \o acc.processed_paths),
             steps |-> preprocessed]
     ELSE save_samples(req, i + 1,
            [audio_paths |-> audio_paths,
             processed_paths |-> Append(acc.processed_paths, processed_path),
             folder |-> save_file(saved, processed_path, audio_file,
                                  "request"),
             steps |-> preprocessed])

\* The loop of register_user over the uploaded files, from file i on.
save_samples(req, i, acc) ==
  IF i > Len(req.audio_files) THEN [failed |-> FALSE] @@ acc
  ELSE save_sample(req, i, acc,
                   validate_audio(req.audio_files[i].file,
                                  req.cfg.MIN_AUDIO_DURATION,
                                  req.cfg.MAX_AUDIO_DURATION),
                   preprocess_run(req.audio_files[i].file, RouteFlags,
                                  req.env))

\* The calls of extract_embedding that register_voice makes: one per file
\* up to and including the first that fails.
RECURSIVE ExtractCalls(_, _)
ExtractCalls(audio_paths, i) ==
  IF i > Len(audio_paths) THEN <<>>
  ELSE <<<<"extract_embedding", i>>>> \o
       (IF extract_embedding(audio_paths[i]).ok
          THEN ExtractCalls(audio_paths, i + 1) ELSE <<>>)

\* register_user from the result of register_voice on: the document is
\* inserted and the files of the request are removed.
insert_profile(user_name, registered, env, samples, registration_result, called) ==
  LET all_paths == samples.audio_paths \o samples.processed_paths
      cleaned == remove_files(samples.folder, all_paths)
  IN IF ~registration_result.success
       THEN [response |-> JsonResponse(500,
                            [success |-> FALSE,
                             error |-> registration_result.error]),
             registered |-> registered, folder |-> cleaned,
             steps |-> called]
     ELSE IF env.database = "OperationFailure"
       THEN [response |-> JsonResponse(500,
                            [success |-> FALSE,
                             error |-> "Database error"]),
             registered |-> registered, folder |-> cleaned,
             steps |-> called]
     ELSE IF env.database # "ok"
       THEN [response |-> JsonResponse(500,
                            [success |-> FALSE,
                             error |-> "Server error"]),
             registered |-> registered, folder |-> samples.folder,
             steps |-> called]
     ELSE
       [response |-> JsonResponse(201,
          [success |-> TRUE,
           num_samples |-> registration_result.num_samples,
           avg_inter_similarity |->
             round2(registration_result.avg_inter_similarity)]),
        registered |-> Append(registered,
          [name |-> user_name,
           voice_embeddings |-> registration_result.embeddings,
           num_samples |-> registration_result.num_samples,
           avg_inter_similarity |->
             registration_result.avg_inter_similarity]),
        folder |-> cleaned, steps |-> called]

\* register_user after the loop over the files: a failed sample has ended
\* the request; otherwise register_voice is called on the processed files.
register_samples(user_name, recordings, registered, env, samples) ==
  IF samples.failed
    THEN [response |-> samples.response, registered |-> registered,
          folder |-> samples.folder, steps |-> samples.steps]
    ELSE insert_profile(user_name, registered, env, samples,
                        register_voice(recordings, user_name),
                        samples.steps \o ExtractCalls(recordings, 1))

\* POST /register: the response, the collection and the upload folder
\* afterwards, and the calls made on the samples.
register_route(user_name, audio_files, registered, cfg, env, folder) ==
  LET rejected(error) ==
        [response |-> JsonResponse(400, [success |-> FALSE, error |-> error]),
         registered |-> registered, folder |-> folder, steps |-> <<>>]
  IN IF NameLength(user_name) < 2
       THEN rejected("User name must be at least 2 characters")
     ELSE IF \E k \in 1 .. Len(registered) : registered[k].name = user_name
       THEN rejected("User is already registered")
     ELSE IF Len(audio_files) < 1
       THEN rejected("Audio files are required")
     ELSE IF Len(audio_files) > MaxSamplesPerUser
       THEN rejected("Maximum 5 audio samples allowed")
     ELSE
       register_samples(
         user_name,
         [k \in 1 .. Len(audio_files) |-> audio_files[k].audio_path],
         registered, env,
         save_samples(
           [user_name |-> user_name, audio_files |-> audio_files,
            cfg |-> cfg, env |-> env], 1,
           [audio_paths |-> <<>>, processed_paths |-> <<>>,
            folder |-> folder, steps |-> <<>>]))

\* delete_one({"name": user_name}): the collection without the first
\* profile of that name.
delete_one(registered, user_name) ==
  IF \E k \in 1 .. Len(registered) : registered[k].name = user_name
    THEN LET k == CHOOSE i \in 1 .. Len(registered) :
                    /\ registered[i].name = user_name
                    /\ \A j \in 1 .. (i - 1) : registered[j].name # user_name
         IN SubSeq(registered, 1, k - 1)
            \o SubSeq(registered, k + 1, Len(registered))
    ELSE registered

\* DELETE /users/<user_name>
delete_route(user_name, registered) ==
  LET remaining == delete_one(registered, user_name)
  IN IF Len(remaining) < Len(registered)
       THEN [response |-> JsonResponse(200, [success |-> TRUE]),
             registered |-> remaining]
       ELSE [response |-> JsonResponse(404, [success |-> FALSE]),
             registered |-> registered]

----------------------------------------------------------------------------
(* The requests *)

\* The worker threads of the development server and what each is doing.
Workers == {"worker-1", "worker-2"}
NoThreads == [w \in Workers |-> [pc |-> "idle"]]

RECURSIVE CountEmbeddings(_)
CountEmbeddings(registered) ==
  IF registered = <<>> THEN 0
  ELSE Len(registered[1].voice_embeddings) + CountEmbeddings(Tail(registered))

\* The non-empty sequences over S of length at most n.
SeqsUpTo(S, n) == UNION {[1 .. k -> S] : k \in 1 .. n}

Init ==
  /\ config = Config(Pct(65))
  /\ registered_users = <<>>
  /\ request = NoCall
  /\ result = NoCall
  /\ status_msg = NoStatus
  /\ extractions = 0
  /\ steps = <<>>
  /\ upload_folder = {}
  /\ threads = NoThreads

\* Requests are served one at a time here: a request is taken when the
\* response of the one before it has been sent.  identify_speaker and
\* verify_speaker keep no state between calls, so their results are those
\* of any interleaving that reads the same collection.
Idle == request = NoCall

\* A registration request that reaches insert_one: the profile is appended to
\* the collection.
Register(user_name, embeddings) ==
  /\ Idle
  /\ CountEmbeddings(registered_users) + Len(embeddings) <= MaxEmbeddings
  /\ registered_users' =
       Append(registered_users,
              [name |-> user_name, voice_embeddings |-> embeddings])
  /\ UNCHANGED <<upload_folder, threads, config, request, result, status_msg, extractions, steps>>

\* An identification request: identify_speaker over the whole collection.
Identify(audio_path, threshold, method) ==
  LET run == identify_run(audio_path, registered_users, threshold, method)
  IN /\ Idle
     /\ request' = [op |-> "identify", audio_path |-> audio_path,
                     threshold |-> threshold, method |-> method]
     /\ result' = run.ret
     /\ status_msg' = run.status_msg
     /\ extractions' = run.extractions
     /\ UNCHANGED <<upload_folder, threads, config, registered_users, steps>>

\* A verification request: verify_speaker over the whole collection.
Verify(audio_path, claimed_name, threshold) ==
  LET run == verify_run(audio_path, claimed_name, registered_users, threshold)
  IN /\ Idle
     /\ request' = [op |-> "verify", audio_path |-> audio_path,
                     claimed_name |-> claimed_name, threshold |-> threshold]
     /\ result' = run.ret
     /\ status_msg' = NoStatus
     /\ extractions' = run.extractions
     /\ UNCHANGED <<upload_folder, threads, config, registered_users, steps>>

\* The result goes out as the JSON response and the request is over.
Respond ==
  /\ ~Idle
  /\ request' = NoCall
  /\ result' = NoCall
  /\ status_msg' = NoStatus
  /\ extractions' = 0
  /\ steps' = <<>>
  /\ UNCHANGED <<upload_folder, threads, config, registered_users>>

Next ==
  \/ \E n \in Names, e \in SeqsUpTo(StoredEmbeddings, MaxEmbeddings) :
       Register(n, e)
  \/ \E a \in AudioFiles, t \in Thresholds, m \in Methods : Identify(a, t, m)
  \/ \E a \in AudioFiles, c \in ClaimedNames, t \in Thresholds :
       Verify(a, c, t)
  \/ Respond

Spec == Init /\ [][Next]_vars

----------------------------------------------------------------------------
(* The routes: the configuration is whatever the environment sets, and the *)
(* requests carry an upload and the form field 'threshold'                 *)

ConfiguredThresholds == {Pct(65), Pct(150)}

\* An upload: the recording in the file, and the name under which
\* extract_embedding knows what the recording yields.
GoodRecording ==
  [exists |-> TRUE, size |-> 1000, decodable |-> TRUE,
   audio |-> [num_samples |-> 2 * target_sr, peak |-> 5000, energy |-> 3000,
              zero_crossing_rate |-> 1500, history |-> <<>>]]

EmptyRecording ==
  [exists |-> TRUE, size |-> 1000, decodable |-> TRUE, audio |-> EmptyWaveform]

Uploads ==
  {[file |-> GoodRecording, audio_path |-> "probe.wav",
    filename |-> "voice.wav"],
   [file |-> GoodRecording, audio_path |-> "corrupt.wav",
    filename |-> "voice.wav"],
   [file |-> EmptyRecording, audio_path |-> "probe.wav",
    filename |-> "voice.wav"]}

\* The environments in which the steps of preprocess may fail and nothing
\* else does.
RouteEnvironments ==
  {Environment(a, b, FALSE, "ok", "12:00:00") : a, b \in BOOLEAN}

\* Requests served one after the other are followed up to the first file
\* that one of them leaves behind: the paths of later requests carry a later
\* time, so what an earlier request left plays no part in them.
FolderQuiet == upload_folder = {}

InitRoutes ==
  /\ \E t \in ConfiguredThresholds :
       /\ config = Config(t)
       /\ ImportProceeds(Config_validate(config))
  /\ registered_users = <<>>
  /\ request = NoCall
  /\ result = NoCall
  /\ status_msg = NoStatus
  /\ extractions = 0
  /\ steps = <<>>
  /\ upload_folder = {}
  /\ threads = NoThreads

IdentifyRequest(upload, form_threshold, env) ==
  LET run == identify_route(upload, form_threshold, registered_users, config,
                            env, upload_folder)
  IN /\ Idle /\ FolderQuiet
     /\ request' = [op |-> "POST /identify", upload |-> upload,
                    form_threshold |-> form_threshold, env |-> env]
     /\ result' = run.response
     /\ status_msg' = run.status_msg
     /\ extractions' = run.extractions
     /\ steps' = run.steps
     /\ upload_folder' = run.folder
     /\ UNCHANGED <<threads, config, registered_users>>

VerifyRequest(upload, claimed_name, form_threshold, env) ==
  LET run == verify_route(upload, claimed_name, form_threshold,
                          registered_users, config, env, upload_folder)
  IN /\ Idle /\ FolderQuiet
     /\ request' = [op |-> "POST /verify", upload |-> upload,
                    claimed_name |-> claimed_name,
                    form_threshold |-> form_threshold, env |-> env]
     /\ result' = run.response
     /\ status_msg' = NoStatus
     /\ extractions' = run.extractions
     /\ steps' = run.steps
     /\ upload_folder' = run.folder
     /\ UNCHANGED <<threads, config, registered_users>>

NextRoutes ==
  \/ \E e \in SeqsUpTo({2, 5}, MaxEmbeddings) : Register("alice", e)
  \/ \E u \in Uploads, t \in FormThresholds, x \in RouteEnvironments :
       IdentifyRequest(u, t, x)
  \/ \E u \in Uploads, c \in {"alice", "carol"}, t \in FormThresholds,
        x \in RouteEnvironments :
       VerifyRequest(u, c, t, x)
  \/ Respond

SpecRoutes == InitRoutes /\ [][NextRoutes]_vars

----------------------------------------------------------------------------
(* The profile store and the upload folder under register, delete,         *)
(* identify and verify requests served one after the other                 *)

ShortRecording ==
  [exists |-> TRUE, size |-> 1000, decodable |-> TRUE,
   audio |-> [num_samples |-> 2 * target_sr - 1, peak |-> 5000,
              energy |-> 3000, zero_crossing_rate |-> 1500,
              history |-> <<>>]]

UndecodableRecording ==
  [exists |-> TRUE, size |-> 1000, decodable |-> FALSE,
   audio |-> EmptyWaveform]

GoodSample ==
  [file |-> GoodRecording, audio_path |-> "sample_2.wav",
   filename |-> "voice.wav"]

\* The samples a registration may carry: a good one, one of a format that is
\* not allowed, one that is too short, and one the encoder fails on.
SampleKinds ==
  {GoodSample,
   [file |-> GoodRecording, audio_path |-> "sample_2.wav",
    filename |-> "notes.txt"],
   [file |-> ShortRecording, audio_path |-> "sample_2.wav",
    filename |-> "voice.wav"],
   [file |-> GoodRecording, audio_path |-> "corrupt.wav",
    filename |-> "voice.wav"]}

\* The lists of files of a registration request: none, one or two samples
\* of any kind, two good samples followed by one of any kind, and 1 to 6
\* good ones.
SampleLists ==
  {<<>>} \cup SeqsUpTo(SampleKinds, 2)
  \cup {<<GoodSample, GoodSample, s>> : s \in SampleKinds}
  \cup {[k \in 1 .. n |-> GoodSample] : n \in 1 .. (MaxSamplesPerUser + 1)}

StoreUploads ==
  Uploads
  \cup {[file |-> GoodRecording, audio_path |-> "probe.wav",
          filename |-> "notes.txt"],
         [file |-> UndecodableRecording, audio_path |-> "probe.wav",
          filename |-> "voice.wav"]}

StoreEnvironments ==
  {Environment(FALSE, FALSE, FALSE, "ok", "12:00:00"),
   Environment(FALSE, FALSE, TRUE, "ok", "12:00:00"),
   Environment(FALSE, FALSE, FALSE, "OperationFailure", "12:00:00"),
   Environment(FALSE, FALSE, FALSE, "ConnectionFailure", "12:00:00")}

NoThreshold == [present |-> FALSE, numeric |-> FALSE, value |-> 0]

RegisterRequest(user_name, audio_files, env) ==
  LET run == register_route(user_name, audio_files, registered_users, config,
                            env, upload_folder)
  IN /\ Idle /\ FolderQuiet
     /\ request' = [op |-> "POST /register", user_name |-> user_name,
                    audio_files |-> audio_files, env |-> env,
                    registered_before |-> registered_users]
     /\ result' = run.response
     /\ registered_users' = run.registered
     /\ steps' = run.steps
     /\ upload_folder' = run.folder
     /\ UNCHANGED <<threads, config, status_msg, extractions>>

DeleteRequest(user_name) ==
  LET run == delete_route(user_name, registered_users)
  IN /\ Idle
     /\ request' = [op |-> "DELETE /users", user_name |-> user_name]
     /\ result' = run.response
     /\ registered_users' = run.registered
     /\ UNCHANGED <<upload_folder, threads, config, status_msg, extractions, steps>>

NextStore ==
  \/ \E n \in Names \cup {"x"}, a \in SampleLists, x \in StoreEnvironments :
       RegisterRequest(n, a, x)
  \/ \E n \in Names : DeleteRequest(n)
  \/ \E u \in StoreUploads, x \in StoreEnvironments :
       IdentifyRequest(u, NoThreshold, x)
  \/ \E u \in StoreUploads, x \in StoreEnvironments :
       VerifyRequest(u, "alice", NoThreshold, x)
  \/ Respond

SpecStore == Init /\ [][NextStore]_vars

----------------------------------------------------------------------------
(* Register, identify and delete requests served by two worker threads at  *)
(* once.  A step of a thread is one stretch of the route between two       *)
(* accesses to what the threads share, the collection and the upload       *)
(* folder; the steps of the two threads interleave freely.                 *)

\* Registrations are taken while the collection holds fewer profiles.
MaxProfiles == 2

\* Two voices; both clients call their file voice.wav.
ThreadUploads ==
  {[file |-> GoodRecording, audio_path |-> "probe.wav",
    filename |-> "voice.wav"],
   GoodSample}

\* datetime.now().strftime("%Y%m%d_%H%M%S"): the seconds of the model.
Timestamps == {"12:00:00", "12:00:01"}

\* The clock does not run backwards: no thread at work holds a later second.
Now(timestamp) ==
  \A w \in Workers :
    threads[w].pc \notin {"idle", "deleted"} =>
      ~(timestamp = "12:00:00" /\ threads[w].timestamp = "12:00:01")

QuietEnvironment(timestamp) == Environment(FALSE, FALSE, FALSE, "ok", timestamp)

\* What a read of path finds in the upload folder.
read_file(folder, path) == CHOOSE f \in folder : f.path = path

\* What the audio functions find at a path another request has removed.
MissingFile ==
  [exists |-> FALSE, size |-> 0, decodable |-> FALSE, audio |-> EmptyWaveform]

\* audio_paths of the register loop, and the one path of identify.
ThreadPath(t) ==
  IF t.op = "POST /register"
    THEN UploadPath(t.user_name, t.timestamp, 1, t.upload.filename)
    ELSE UploadPath("identify", t.timestamp, 0, t.upload.filename)

\* "if os.path.exists(path): os.remove(path)" over both lists of the
\* register route.
remove_existing(folder, t) ==
  remove_files(folder, <<ThreadPath(t), ProcessedPath(ThreadPath(t))>>)

Finish(w, response) ==
  threads' = [threads EXCEPT ![w] = [threads[w] EXCEPT !.pc = "done"]
                                      @@ [response |-> response]]

Goto(w, pc) == threads' = [threads EXCEPT ![w].pc = pc]

\* register_user up to find_one: the name is looked up, and the request
\* ends here when a profile of that name is found.
T_RegisterFindOne(w, user_name, upload, timestamp) ==
  /\ threads[w].pc = "idle"
  /\ Now(timestamp)
  /\ Len(registered_users) < MaxProfiles
  /\ LET t == [pc |-> "save", op |-> "POST /register",
               user_name |-> user_name, upload |-> upload,
               timestamp |-> timestamp]
     IN IF \E k \in 1 .. Len(registered_users) :
             registered_users[k].name = user_name
          THEN threads' = [threads EXCEPT ![w] =
                 [t EXCEPT !.pc = "done"]
                 @@ [response |-> JsonResponse(400, [success |-> FALSE,
                                  error |-> "User is already registered"])]]
          ELSE threads' = [threads EXCEPT ![w] = t]
  /\ UNCHANGED <<upload_folder, registered_users, config, request, result,
                 status_msg, extractions, steps>>

\* identify_speaker of the routes up to the point where the name of the
\* temporary file is made.
T_IdentifyStart(w, upload, timestamp) ==
  /\ threads[w].pc = "idle"
  /\ Now(timestamp)
  /\ threads' = [threads EXCEPT ![w] =
                   [pc |-> "save", op |-> "POST /identify",
                    user_name |-> "", upload |-> upload,
                    timestamp |-> timestamp]]
  /\ UNCHANGED <<upload_folder, registered_users, config, request, result,
                 status_msg, extractions, steps>>

\* audio_file.save(filepath): whatever is at the path is overwritten.
T_Save(w) ==
  /\ threads[w].pc = "save"
  /\ upload_folder' = save_file(upload_folder, ThreadPath(threads[w]),
                                threads[w].upload, w)
  /\ Goto(w, "process")
  /\ UNCHANGED <<registered_users, config, request, result, status_msg,
                 extractions, steps>>

\* validate_audio, preprocess and save_audio on the file now at the path.
\* A file that is gone fails validation; identify then calls os.remove on
\* it, which raises into the outer except clause, and register removes what
\* still exists of its files.
T_Process(w) ==
  /\ threads[w].pc = "process"
  /\ LET t == threads[w]
         filepath == ThreadPath(t)
     IN IF ~file_exists(upload_folder, filepath)
          THEN /\ upload_folder' = upload_folder
               /\ Finish(w, IF t.op = "POST /register"
                              THEN JsonResponse(400, [success |-> FALSE,
                                     error |-> validate_audio(MissingFile,
                                                 config.MIN_AUDIO_DURATION,
                                                 config.MAX_AUDIO_DURATION
                                               ).error])
                              ELSE JsonResponse(500, [success |-> FALSE,
                                     error |-> "Server error"]))
        ELSE
          LET content == read_file(upload_folder, filepath).content
              validation == validate_audio(content.file,
                                           config.MIN_AUDIO_DURATION,
                                           config.MAX_AUDIO_DURATION)
          IN IF ~validation.valid
               THEN /\ upload_folder' = remove_file(upload_folder, filepath)
                    /\ Finish(w, JsonResponse(400, [success |-> FALSE,
                                              error |-> validation.error]))
             ELSE /\ upload_folder' = save_file(upload_folder,
                                        ProcessedPath(filepath), content, w)
                  /\ Goto(w, "extract")
  /\ UNCHANGED <<registered_users, config, request, result, status_msg,
                 extractions, steps>>

\* The recording extract_embedding finds at the preprocessed path.
Processed(t) ==
  IF file_exists(upload_folder, ProcessedPath(ThreadPath(t)))
    THEN read_file(upload_folder,
                   ProcessedPath(ThreadPath(t))).content.audio_path
    ELSE "<no such file>"

\* register_voice on processed_paths; a failure removes the files and ends
\* the request.
T_RegisterVoice(w) ==
  /\ threads[w].pc = "extract"
  /\ threads[w].op = "POST /register"
  /\ LET t == threads[w]
         registration_result == register_voice(<<Processed(t)>>, t.user_name)
     IN IF ~registration_result.success
          THEN /\ upload_folder' = remove_existing(upload_folder, t)
               /\ Finish(w, JsonResponse(500, [success |-> FALSE,
                                   error |-> registration_result.error]))
          ELSE /\ upload_folder' = upload_folder
               /\ threads' = [threads EXCEPT ![w] =
                    [t EXCEPT !.pc = "insert"]
                    @@ [user_doc |->
                          [name |-> t.user_name,
                           voice_embeddings |-> registration_result.embeddings,
                           num_samples |-> registration_result.num_samples,
                           avg_inter_similarity |->
                             registration_result.avg_inter_similarity]]]
  /\ UNCHANGED <<registered_users, config, request, result, status_msg,
                 extractions, steps>>

\* insert_one(user_doc), then the files of the request are removed.
T_RegisterInsert(w) ==
  /\ threads[w].pc = "insert"
  /\ LET t == threads[w]
     IN /\ registered_users' = Append(registered_users, t.user_doc)
        /\ upload_folder' = remove_existing(upload_folder, t)
        /\ Finish(w, JsonResponse(201,
             [success |-> TRUE, num_samples |-> t.user_doc.num_samples,
              avg_inter_similarity |->
                round2(t.user_doc.avg_inter_similarity)]))
  /\ UNCHANGED <<config, request, result, status_msg, extractions, steps>>

\* users_collection.find and voice_service.identify_speaker on
\* processed_path.
T_Identify(w) ==
  /\ threads[w].pc = "extract"
  /\ threads[w].op = "POST /identify"
  /\ LET t == threads[w]
         threshold == float_threshold(NoThreshold, config).value
         run == identify_run(Processed(t), registered_users, threshold,
                             "cosine")
     IN threads' = [threads EXCEPT ![w] =
          [t EXCEPT !.pc = "cleanup"]
          @@ [registered |-> registered_users, result |-> run.ret]]
  /\ UNCHANGED <<upload_folder, registered_users, config, request, result,
                 status_msg, extractions, steps>>

\* "try: os.remove(filepath); os.remove(processed_path)": when the first
\* file is gone the exception is logged and the second stays.
T_IdentifyCleanup(w) ==
  /\ threads[w].pc = "cleanup"
  /\ LET t == threads[w]
         filepath == ThreadPath(t)
     IN /\ upload_folder' =
             IF file_exists(upload_folder, filepath)
               THEN remove_files(upload_folder,
                                 <<filepath, ProcessedPath(filepath)>>)
               ELSE upload_folder
        /\ Finish(w, JsonResponse(200, [success |-> TRUE,
                                        result |-> t.result]))
  /\ UNCHANGED <<registered_users, config, request, result, status_msg,
                 extractions, steps>>

\* DELETE /users/<user_name>: one call of delete_one.
T_Delete(w, user_name) ==
  /\ threads[w].pc = "idle"
  /\ LET run == delete_route(user_name, registered_users)
     IN /\ registered_users' = run.registered
        /\ threads' = [threads EXCEPT ![w] =
                         [pc |-> "deleted", op |-> "DELETE /users",
                          user_name |-> user_name,
                          response |-> run.response]]
  /\ UNCHANGED <<upload_folder, config, request, result, status_msg,
                 extractions, steps>>

\* The response is sent and the thread takes the next request.
T_Return(w) ==
  /\ threads[w].pc \in {"done", "deleted"}
  /\ threads' = [threads EXCEPT ![w] = [pc |-> "idle"]]
  /\ UNCHANGED <<upload_folder, registered_users, config, request, result,
                 status_msg, extractions, steps>>

NextThreads ==
  \/ \E w \in Workers, n \in Names, u \in ThreadUploads, ts \in Timestamps :
       T_RegisterFindOne(w, n, u, ts)
  \/ \E w \in Workers, u \in ThreadUploads, ts \in Timestamps :
       T_IdentifyStart(w, u, ts)
  \/ \E w \in Workers : T_Save(w)
  \/ \E w \in Workers : T_Process(w)
  \/ \E w \in Workers : T_RegisterVoice(w)
  \/ \E w \in Workers : T_RegisterInsert(w)
  \/ \E w \in Workers : T_Identify(w)
  \/ \E w \in Workers : T_IdentifyCleanup(w)
  \/ \E w \in Workers, n \in Names : T_Delete(w, n)
  \/ \E w \in Workers : T_Return(w)

SpecThreads == Init /\ [][NextThreads]_vars

----------------------------------------------------------------------------
(* The service's enrolment and scoring functions, one call at a time *)

EnrolFiles == DOMAIN SampleEmbedding \cup AudioFiles

Similarity(embedding1, embedding2, method) ==
  /\ Idle
  /\ request' = [op |-> "calculate_similarity", embedding1 |-> embedding1,
                 embedding2 |-> embedding2, method |-> method]
  /\ result' = calculate_similarity(embedding1, embedding2, method)
  /\ UNCHANGED <<upload_folder, threads, config, registered_users, status_msg, extractions, steps>>

RegisterVoice(audio_paths, user_name) ==
  /\ Idle
  /\ request' = [op |-> "register_voice", audio_paths |-> audio_paths,
                 user_name |-> user_name]
  /\ result' = register_voice(audio_paths, user_name)
  /\ UNCHANGED <<upload_folder, threads, config, registered_users, status_msg, extractions, steps>>

OptimalThreshold(user_embeddings) ==
  /\ Idle
  /\ request' = [op |-> "calculate_optimal_threshold",
                 user_embeddings |-> user_embeddings]
  /\ result' = [threshold |-> calculate_optimal_threshold(user_embeddings)]
  /\ UNCHANGED <<upload_folder, threads, config, registered_users, status_msg, extractions, steps>>

NextEnrol ==
  \/ \E u \in 1 .. 5, v \in 1 .. 5, m \in Methods : Similarity(u, v, m)
  \/ \E a \in SeqsUpTo(EnrolFiles, MaxEmbeddings), n \in Names :
       RegisterVoice(a, n)
  \/ \E e \in SeqsUpTo(StoredEmbeddings, MaxEmbeddings) : OptimalThreshold(e)
  \/ Respond

SpecEnrol == Init /\ [][NextEnrol]_vars

----------------------------------------------------------------------------
(* The audio processor on its own: one call at a time on one recording *)

Validate(file, limits) ==
  /\ Idle
  /\ request' = [op |-> "validate_audio", file |-> file,
                 min_duration |-> limits[1], max_duration |-> limits[2]]
  /\ result' = validate_audio(file, limits[1], limits[2])
  /\ UNCHANGED <<upload_folder, threads, config, registered_users, status_msg, extractions, steps>>

Preprocess(file, flags, fails) ==
  /\ Idle
  /\ request' = [op |-> "preprocess", file |-> file, flags |-> flags,
                 fails |-> fails]
  /\ LET run == preprocess_run(file, flags, fails)
     IN /\ result' = run.ret
        /\ steps' = run.steps
  /\ UNCHANGED <<upload_folder, threads, config, registered_users, status_msg, extractions>>

NextAudio ==
  \/ \E f \in Recordings, l \in DurationLimits : Validate(f, l)
  \/ \E f \in Recordings, g \in Flags, x \in StepFailures :
       Preprocess(f, g, x)
  \/ Respond

SpecAudio == Init /\ [][NextAudio]_vars

----------------------------------------------------------------------------
(* What the claims speak of, stated on the inputs of the request in hand *)

KnownMethods == {"cosine", "euclidean"}

\* identify_speaker was called and got as far as scoring the profiles.
ScoresComputed ==
  /\ request.op = "identify"
  /\ registered_users # <<>>
  /\ request.audio_path = "probe.wav"
  /\ request.method \in KnownMethods

\* The mean similarity of the probe to the i-th profile's signatures.
ProfileMean(i, method) ==
  LET e == registered_users[i].voice_embeddings
      sim(k) == IF method = "cosine"
                  THEN Scale - CosineTable[ProbeEmbedding][e[k]]
                  ELSE (Scale * Unit) \div (Unit + EuclideanTable[ProbeEmbedding][e[k]])
  IN Sum([k \in 1 .. Len(e) |-> sim(k)]) \div Len(e)

Profiles == 1 .. Len(registered_users)

\* The greatest mean over the profiles.
BestMean ==
  CHOOSE m \in {ProfileMean(i, request.method) : i \in Profiles} :
    \A i \in Profiles : ProfileMean(i, request.method) <= m

\* The names of the profiles whose mean is the greatest.
BestNames ==
  {registered_users[i].name :
     i \in {j \in Profiles : ProfileMean(j, request.method) = BestMean}}

\* The first profile, in iteration order, whose mean is the greatest.
FirstBest ==
  CHOOSE i \in Profiles :
    /\ ProfileMean(i, request.method) = BestMean
    /\ \A j \in 1 .. (i - 1) : ProfileMean(j, request.method) < BestMean

CountName(seq, n) == Cardinality({i \in 1 .. Len(seq) : seq[i].name = n})

\* verify_speaker was called with an enrolled name and a readable probe.
ClaimedEnrolled ==
  /\ request.op = "verify"
  /\ \E i \in Profiles : registered_users[i].name = request.claimed_name

\* The first profile of the claimed name.
ClaimedProfile ==
  CHOOSE i \in Profiles :
    /\ registered_users[i].name = request.claimed_name
    /\ \A j \in 1 .. (i - 1) : registered_users[j].name # request.claimed_name

----------------------------------------------------------------------------
(* Claims *)

\* C1: identify_speaker on an empty list of registered users returns
\* identified = false, the name "No users registered", confidence 0 and an
\* empty score list, whatever the probe (unreadable ones included), the
\* threshold and the method string, and does not call the extractor.
C1_EmptyListSentinel ==
  (request.op = "identify" /\ registered_users = <<>>) =>
    /\ result.identified = FALSE
    /\ result.name = "No users registered"
    /\ result.confidence = 0
    /\ result.all_scores = <<>>
    /\ extractions = 0

C1_Witness ==
  /\ request.op = "identify"
  /\ registered_users = <<>>
  /\ request.audio_path = "corrupt.wav"
  /\ request.method = "manhattan"
  /\ result.name = "No users registered"

\* C2: with a non-empty list and any threshold, a best mean score strictly
\* below 0.05 gives identified = false and the no-voice sentinel name.
C2_SilenceTier ==
  (ScoresComputed /\ BestMean < Pct(5)) =>
    /\ result.identified = FALSE
    /\ result.name = "Can't hear someone speaking"

C2_Witness ==
  /\ ScoresComputed
  /\ BestMean < Pct(5)
  /\ request.threshold = Pct(20)
  /\ result.name = "Can't hear someone speaking"

\* C3: with a non-empty list and any threshold, a best mean score in
\* [0.05, 0.30) gives identified = false and the unknown-speaker sentinel.
C3_UnknownTier ==
  (ScoresComputed /\ Pct(5) <= BestMean /\ BestMean < Pct(30)) =>
    /\ result.identified = FALSE
    /\ result.name = "Unknown Person Speaking"

C3_Witness ==
  /\ ScoresComputed
  /\ BestMean = Pct(5)
  /\ result.name = "Unknown Person Speaking"

\* C4: with a non-empty list, a best mean score in [0.30, threshold) gives
\* identified = true and the name of a best-matching profile.
C4_LowConfidenceTier ==
  (ScoresComputed /\ Pct(30) <= BestMean /\ BestMean < request.threshold) =>
    /\ result.identified = TRUE
    /\ result.name \in BestNames

C4_Witness ==
  /\ ScoresComputed
  /\ BestMean = Pct(30)
  /\ request.threshold = Pct(65)
  /\ result.identified = TRUE
  /\ result.name \in Names

\* C5, as stated: whenever the best mean score is at least the threshold,
\* the result is identified = true, a high-confidence match, named after a
\* best-matching profile.
C5_AsStated ==
  (ScoresComputed /\ BestMean >= request.threshold) =>
    /\ result.identified = TRUE
    /\ result.name \in BestNames
    /\ status_msg = "SPEAKER IDENTIFIED"

\* C5, amended: whenever the best mean score is at least the threshold and
\* at least 0.30, the result is identified = true, named after a
\* best-matching profile, and the match is classified as high-confidence.
C5_HighConfidenceTier ==
  (ScoresComputed /\ BestMean >= request.threshold /\ BestMean >= Pct(30)) =>
    /\ result.identified = TRUE
    /\ result.name \in BestNames
    /\ status_msg = "SPEAKER IDENTIFIED"

C5_Witness ==
  /\ ScoresComputed
  /\ BestMean = request.threshold
  /\ BestMean = Pct(65)
  /\ result.identified = TRUE
  /\ status_msg = "SPEAKER IDENTIFIED"

\* C6: the returned data carries the confidence tier: two calls that differ
\* only in the threshold and were classified into different tiers never
\* return the same data.
C6_TierInResult ==
  ScoresComputed =>
    \A t \in Thresholds :
      LET other == identify_run(request.audio_path, registered_users, t,
                                request.method)
      IN other.ret = result => other.status_msg = status_msg

\* C7: the score that is classified and reported as confidence is the
\* greatest mean over the profiles, and the name returned on a match is that
\* of the first profile with that mean.
C7_BestIsGreatestMean ==
  ScoresComputed =>
    /\ result.confidence = round2(BestMean)
    /\ result.identified => result.name = registered_users[FirstBest].name

\* C8: when identification completes, all_scores has one entry per profile,
\* with the same names as often as in the input, ordered by non-increasing
\* mean score.
C8_AllScoresRanked ==
  ScoresComputed =>
    /\ Len(result.all_scores) = Len(registered_users)
    /\ \A n \in Names :
         CountName(result.all_scores, n) = CountName(registered_users, n)
    /\ \A i \in 1 .. (Len(result.all_scores) - 1) :
         result.all_scores[i].avg_score >= result.all_scores[i + 1].avg_score

C8_Witness ==
  /\ ScoresComputed
  /\ Len(registered_users) >= 2
  /\ ProfileMean(1, request.method) < ProfileMean(2, request.method)
  /\ result.all_scores[1].name = registered_users[2].name
  /\ registered_users[1].name # registered_users[2].name

\* C9: verify_speaker with a claimed name that no profile has returns
\* verified = false, the not-registered message and confidence 0, whatever
\* the probe and the threshold, without calling the extractor.
C9_NotRegistered ==
  (request.op = "verify" /\ ~ClaimedEnrolled) =>
    /\ result.verified = FALSE
    /\ result.message = <<"User not registered", request.claimed_name>>
    /\ result.confidence = 0
    /\ extractions = 0

C9_Witness ==
  /\ request.op = "verify"
  /\ ~ClaimedEnrolled
  /\ registered_users # <<>>
  /\ request.audio_path = "corrupt.wav"
  /\ result.message = <<"User not registered", request.claimed_name>>

\* C10: with the claimed name enrolled and a readable probe, verified is
\* true exactly when the mean similarity to that profile's signatures is at
\* least the threshold; the maximum does not enter.
C10_VerdictByMean ==
  (ClaimedEnrolled /\ request.audio_path = "probe.wav") =>
    (result.verified <=>
       ProfileMean(ClaimedProfile, "cosine") >= request.threshold)

C10_Witness ==
  /\ ClaimedEnrolled
  /\ request.audio_path = "probe.wav"
  /\ ProfileMean(ClaimedProfile, "cosine") < request.threshold
  /\ \E k \in 1 .. Len(registered_users[ClaimedProfile].voice_embeddings) :
       Scale - CosineTable[ProbeEmbedding]
                 [registered_users[ClaimedProfile].voice_embeddings[k]]
         >= request.threshold
  /\ result.verified = FALSE

----------------------------------------------------------------------------
(* The audio processor's claims, checked under SpecAudio *)

Validating == request.op = "validate_audio"

\* The file exists, is within the size cap and decodes.
Readable(file) == file.exists /\ file.size <= 16 * 1024 * 1024 /\ file.decodable

\* The bounds of the request in hand, in samples at 16 kHz.
MinSamples == request.min_duration * 16000
MaxSamples == request.max_duration * 16000

\* C11: for a readable, non-silent recording validate_audio accepts a
\* duration equal to min_duration and one equal to max_duration, and every
\* duration between them; it rejects as too short exactly the durations
\* strictly below min_duration and as too long those strictly above
\* max_duration.
C11_DurationBoundsInclusive ==
  (Validating /\ Readable(request.file) /\ request.file.audio.peak >= 10) =>
    LET n == request.file.audio.num_samples
    IN /\ (MinSamples <= n /\ n <= MaxSamples) <=> result.valid
       /\ n < MinSamples => result.error = "Audio too short"
       /\ (n >= MinSamples /\ n > MaxSamples) => result.error = "Audio too long"

\* A recording of exactly min_duration seconds has been accepted.
C11_Witness ==
  /\ Validating /\ Readable(request.file)
  /\ request.min_duration = 2 /\ request.max_duration = 30
  /\ request.file.audio.num_samples = MinSamples
  /\ result.valid

\* C12: validate_audio always returns a result; a missing file, a file over
\* 16 MiB, an unreadable file, a duration out of bounds and a silent
\* recording each give valid = false with an error, and when several hold
\* the error is the first of missing, too large, too short, too long, silent.
C12_NeverRaises ==
  Validating =>
    LET f == request.file
        n == f.audio.num_samples
    IN /\ "valid" \in DOMAIN result
       /\ ~f.exists => (~result.valid /\ result.error = "Audio file not found")
       /\ (f.exists /\ f.size > 16 * 1024 * 1024) =>
            (~result.valid /\ result.error = "File too large")
       /\ (f.exists /\ f.size <= 16 * 1024 * 1024 /\ ~f.decodable) =>
            (~result.valid /\ "error" \in DOMAIN result)
       /\ (Readable(f) /\ n < MinSamples) =>
            (~result.valid /\ result.error = "Audio too short")
       /\ (Readable(f) /\ n >= MinSamples /\ n > MaxSamples) =>
            (~result.valid /\ result.error = "Audio too long")
       /\ (Readable(f) /\ n >= MinSamples /\ n <= MaxSamples /\ f.audio.peak < 10) =>
            (~result.valid /\ "error" \in DOMAIN result)
       /\ (Readable(f) /\ n >= MinSamples /\ n <= MaxSamples /\ n > 0
              /\ f.audio.peak < 10) =>
            result.error = "Audio appears to be silent or too quiet"

\* A file that is over the cap, too short and silent at once is reported as
\* too large.
C12_Witness ==
  /\ Validating
  /\ request.file.exists /\ request.file.size > 16 * 1024 * 1024
  /\ request.file.audio.num_samples < MinSamples
  /\ request.file.audio.peak < 10
  /\ result = [valid |-> FALSE, error |-> "File too large"]

\* C13: a readable recording within the size cap whose duration is in
\* [min_duration, max_duration] and whose peak is at least 0.001 is valid,
\* whatever its RMS energy and zero-crossing rate, and the result carries
\* its duration, energy and zero-crossing rate.
C13_LowEnergyNeverRejects ==
  (/\ Validating /\ Readable(request.file)
   /\ request.file.audio.num_samples >= MinSamples
   /\ request.file.audio.num_samples <= MaxSamples
   /\ request.file.audio.peak >= 10) =>
    /\ result.valid
    /\ result.duration = request.file.audio.num_samples
    /\ result.energy = request.file.audio.energy
    /\ result.zero_crossing_rate = request.file.audio.zero_crossing_rate

\* A recording with RMS energy and zero-crossing rate both under 0.01 has
\* been accepted.
C13_Witness ==
  /\ Validating
  /\ request.file.audio.energy < 100
  /\ request.file.audio.zero_crossing_rate < 100
  /\ result.valid

Preprocessing == request.op = "preprocess"

\* The steps a call with these flags is to take, in order.
ExpectedSteps(flags) ==
  <<"load_audio", "remove_dc_offset">>
  \o (IF flags.apply_noise_reduction THEN <<"reduce_noise">> ELSE <<>>)
  \o (IF flags.apply_trimming THEN <<"trim_silence">> ELSE <<>>)
  \o (IF flags.apply_pre_emphasis THEN <<"apply_pre_emphasis">> ELSE <<>>)
  \o (IF flags.apply_normalization THEN <<"normalize_audio">> ELSE <<>>)

\* C14: once the recording has loaded, preprocess calls DC-offset removal,
\* then noise reduction, trimming, pre-emphasis and normalization, each
\* exactly when its flag is on, in that order and once each.
C14_StepsInFixedOrder ==
  (Preprocessing /\ request.file.exists /\ request.file.decodable) =>
    steps = ExpectedSteps(request.flags)

\* C15: once the recording has loaded, preprocess returns a waveform; a
\* failed noise reduction or trimming leaves no mark on it, and every
\* enabled step has still been called.
C15_OnlyLoadFailureAborts ==
  (Preprocessing /\ request.file.exists /\ request.file.decodable) =>
    /\ result.ok
    /\ steps = ExpectedSteps(request.flags)
    /\ request.fails.reduce_noise =>
         \A i \in DOMAIN result.value.audio.history :
           result.value.audio.history[i] # "reduce_noise"
    /\ request.fails.trim_silence =>
         \A i \in DOMAIN result.value.audio.history :
           result.value.audio.history[i] # "trim_silence"

----------------------------------------------------------------------------
(* The scoring and enrolment claims, checked under SpecEnrol *)

\* C16: calculate_similarity returns the cosine score for "cosine", the
\* Euclidean score for "euclidean", and raises for every other method.
C16_UnknownMethodRaises ==
  request.op = "calculate_similarity" =>
    /\ request.method = "cosine" =>
         (result.ok /\ result.value =
            Scale - CosineTable[request.embedding1][request.embedding2])
    /\ request.method = "euclidean" =>
         LET d == EuclideanTable[request.embedding1][request.embedding2]
         IN /\ result.ok
            /\ result.value * (Unit + d) <= Scale * Unit
            /\ Scale * Unit < (result.value + 1) * (Unit + d)
    /\ request.method \notin {"cosine", "euclidean"} =>
         (~result.ok /\ result.error = "ValueError: Unknown similarity method")

\* A call with the method "manhattan" has raised.
C16_Witness ==
  /\ request.op = "calculate_similarity"
  /\ request.method = "manhattan"
  /\ ~result.ok

\* The unordered pairs of distinct positions of a sequence of n samples.
UnorderedPairs(n) == {p \in (1 .. n) \X (1 .. n) : p[1] < p[2]}

RECURSIVE SumOver(_, _)
SumOver(pairs, e) ==
  IF pairs = {} THEN 0
  ELSE LET p == CHOOSE q \in pairs : TRUE
       IN (Scale - CosineTable[e[p[1]]][e[p[2]]]) + SumOver(pairs \ {p}, e)

\* C19: when every sample yields an embedding, avg_inter_similarity is 1.0
\* for one sample and otherwise the sum of the cosine similarities over the
\* n(n-1)/2 unordered pairs of distinct samples divided by n(n-1)/2.
C19_MeanOverUnorderedPairs ==
  (request.op = "register_voice" /\ result.success) =>
    LET n == Len(request.audio_paths)
        e == result.embeddings
    IN /\ result.num_samples = n
       /\ n = 1 => result.avg_inter_similarity = Scale
       /\ n >= 2 =>
            /\ Cardinality(UnorderedPairs(n)) = (n * (n - 1)) \div 2
            /\ result.avg_inter_similarity * ((n * (n - 1)) \div 2)
                 = SumOver(UnorderedPairs(n), e)

\* Three distinct samples have been enrolled and their mean taken.
C19_Witness ==
  /\ request.op = "register_voice"
  /\ result.success
  /\ result.num_samples = 3
  /\ Cardinality({result.embeddings[i] : i \in 1 .. 3}) = 3
  /\ result.avg_inter_similarity < Scale

\* C20: calculate_optimal_threshold returns 0.65 for fewer than two
\* signatures and otherwise mean - std of the pairwise similarities clamped
\* to [0.5, 0.8]; the value is always within [0.5, 0.8].
C20_ThresholdClamped ==
  request.op = "calculate_optimal_threshold" =>
    LET e == request.user_embeddings
        n == Len(e)
        k == (n * (n - 1)) \div 2
        t == result.threshold
    IN /\ Pct(50) <= t /\ t <= Pct(80)
       /\ n < 2 => t = Pct(65)
       /\ n >= 2 =>
            LET total == SumOver(UnorderedPairs(n), e)
                sims == {<<p, Scale - CosineTable[e[p[1]]][e[p[2]]]>> :
                           p \in UnorderedPairs(n)}
            IN \E r \in 0 .. 6000 :
                 \* r is the standard deviation in units of 1/3000:
                 \* r^2 <= variance < (r+1)^2, with the variance floored
                 /\ LET RECURSIVE SqDev(_)
                        SqDev(ps) ==
                          IF ps = {} THEN 0
                          ELSE LET x == CHOOSE y \in ps : TRUE
                                   d == (k * x[2] - total) \div (600 * k)
                               IN d * d + SqDev(ps \ {x})
                        var == SqDev(sims) \div k
                    IN r * r <= var /\ var < (r + 1) * (r + 1)
                 /\ LET raw == total \div k - 600 * r
                    IN t = IF raw < Pct(50) THEN Pct(50)
                           ELSE IF raw > Pct(80) THEN Pct(80) ELSE raw

\* A threshold strictly inside the range has been computed from a mean and a
\* non-zero deviation.
C20_Witness ==
  /\ request.op = "calculate_optimal_threshold"
  /\ Len(request.user_embeddings) = 3
  /\ Pct(50) < result.threshold /\ result.threshold < Pct(80)
  /\ result.threshold # Pct(65)

----------------------------------------------------------------------------
(* The error claims, checked at the routes under SpecRoutes *)

RouteRequest == request.op \in {"POST /identify", "POST /verify"}

\* The request in hand names a threshold: its own, or the configured one.
ThresholdGiven ==
  ~request.form_threshold.present \/ request.form_threshold.numeric

ThresholdInEffect ==
  IF request.form_threshold.present THEN request.form_threshold.value
  ELSE config.SIMILARITY_THRESHOLD

\* C17: a request whose threshold, configured or supplied, lies outside
\* [0, 1] is answered with an error: no identification or verification
\* result is produced with it.
C17_OutOfRangeThresholdFatal ==
  (/\ RouteRequest /\ ThresholdGiven
   /\ (ThresholdInEffect < 0 \/ ThresholdInEffect > Scale)) =>
    /\ result.status # 200
    /\ "result" \notin DOMAIN result.body

\* C18: when extract_embedding fails during identification or verification
\* the request ends in an error response, not in a result, and
\* extract_embedding has been called once.
C18_ExtractionErrorPropagated ==
  (/\ RouteRequest /\ extractions > 0
   /\ request.upload.audio_path = "corrupt.wav") =>
    /\ extractions = 1
    /\ result.status # 200
    /\ ~result.body.success

----------------------------------------------------------------------------
(* Relations between the results of identify_speaker and verify_speaker,   *)
(* under Spec                                                               *)

Sentinels ==
  {None, "Error", "No users registered", "Can't hear someone speaking",
   "Unknown Person Speaking"}

\* The profiles whose mean similarity to the probe is the greatest.
BestProfiles ==
  {i \in Profiles : ProfileMean(i, request.method) = BestMean}

\* C27: whenever identify_speaker returns identified = true, the name is
\* that of an enrolled profile and no sentinel, it is the name of the first
\* entry of all_scores, which is the first profile of the greatest mean, and
\* the confidence is that entry's mean as a percentage rounded to 2 decimals.
C27_NameIsFirstOfAllScores ==
  (request.op = "identify" /\ result.identified) =>
    /\ \E i \in Profiles : registered_users[i].name = result.name
    /\ result.name \notin Sentinels
    /\ result.name = result.all_scores[1].name
    /\ result.name = registered_users[FirstBest].name
    /\ result.all_scores[1].avg_score = BestMean
    /\ result.confidence = PctUnit *
         (LET q == BestMean \div PctUnit
              r == BestMean % PctUnit
          IN IF 2 * r < PctUnit \/ (2 * r = PctUnit /\ q % 2 = 0)
               THEN q ELSE q + 1)

\* Two profiles of different names tie for the greatest mean and one of them
\* has been identified.
C27_Witness ==
  /\ request.op = "identify"
  /\ result.identified
  /\ \E i, j \in BestProfiles : registered_users[i].name # registered_users[j].name

\* C28: for the probe and profiles of the request in hand, every threshold
\* gives the same identified flag and the same name, and identified is true
\* exactly when the greatest mean is at least 0.30.
C28_ThresholdIndependent ==
  request.op = "identify" =>
    /\ \A t \in Thresholds \cup {0, Pct(30), Pct(150)} :
         LET other == identify_speaker(request.audio_path, registered_users,
                                       t, request.method)
         IN /\ other.identified = result.identified
            /\ other.name = result.name
    /\ ScoresComputed => (result.identified <=> BestMean >= Pct(30))

\* A match below the caller's threshold has been returned as identified.
C28_Witness ==
  /\ ScoresComputed
  /\ BestMean < request.threshold
  /\ result.identified
  /\ status_msg = "LOW CONFIDENCE MATCH"

DistinctNames ==
  \A i, j \in Profiles : i # j => registered_users[i].name # registered_users[j].name

\* C29: with pairwise distinct names and the cosine method, a
\* high-confidence identification of X implies that verify_speaker with the
\* same probe and threshold accepts the claimed name X; and when
\* verify_speaker rejects every enrolled name, identify_speaker returns no
\* high-confidence match.
C29_IdentifyVerifyAgree ==
  (ScoresComputed /\ request.method = "cosine" /\ DistinctNames) =>
    LET high == result.identified /\ BestMean >= request.threshold
        accepts(n) == verify_speaker(request.audio_path, n, registered_users,
                                     request.threshold).verified
    IN /\ high => accepts(result.name)
       /\ (\A i \in Profiles : ~accepts(registered_users[i].name)) => ~high

\* A high-confidence identification among two profiles of distinct names,
\* the best mean being exactly the threshold.
C29_Witness ==
  /\ ScoresComputed /\ request.method = "cosine" /\ DistinctNames
  /\ Len(registered_users) = 2
  /\ result.identified /\ BestMean = request.threshold
  /\ status_msg = "SPEAKER IDENTIFIED"

\* C30: every confidence reported by identify_speaker and verify_speaker
\* lies in [0, 100], and max_confidence is at least confidence.
C30_ConfidenceInRange ==
  request.op \in {"identify", "verify"} =>
    /\ 0 <= result.confidence /\ result.confidence <= Pct(100)
    /\ "max_confidence" \in DOMAIN result =>
         /\ 0 <= result.max_confidence /\ result.max_confidence <= Pct(100)
         /\ result.max_confidence >= result.confidence

----------------------------------------------------------------------------
(* The store and the upload folder, under SpecStore *)

\* C21: every profile in the store holds between 1 and 5 signatures, and
\* its num_samples is the number of signatures stored.
C21_ProfileSizes ==
  \A i \in 1 .. Len(registered_users) :
    /\ Len(registered_users[i].voice_embeddings) >= 1
    /\ Len(registered_users[i].voice_embeddings) <= 5
    /\ registered_users[i].num_samples
         = Len(registered_users[i].voice_embeddings)

\* A profile of five signatures is in the store after another profile has
\* been deleted.
C21_Witness ==
  /\ request.op = "DELETE /users"
  /\ result.status = 200
  /\ \E i \in 1 .. Len(registered_users) :
       registered_users[i].num_samples = 5

\* C23: in every request, a sample is loaded for preprocessing and handed to
\* extract_embedding only after validate_audio has been called on it.
C23_ValidatedFirst ==
  request.op \in {"POST /register", "POST /identify", "POST /verify"} =>
    \A k \in 1 .. Len(steps) :
      steps[k][1] \in {"load_audio", "extract_embedding"} =>
        \E j \in 1 .. (k - 1) : steps[j] = <<"validate_audio", steps[k][2]>>

\* C24: when a register, identify or verify request has finished, whatever
\* its outcome, none of the files it wrote is left in the upload folder.
C24_UploadsRemoved ==
  request.op \in {"POST /register", "POST /identify", "POST /verify"} =>
    upload_folder = {}

\* Every sample of the registration request in hand can be processed: its
\* format is allowed, it is readable, 2 to 30 seconds long and not silent,
\* its preprocessed copy can be written and the encoder accepts it.
AllSamplesGood ==
  /\ ~request.env.save_audio
  /\ \A k \in 1 .. Len(request.audio_files) :
       LET f == request.audio_files[k]
       IN /\ f.filename \in {"voice.wav", "other.wav"}
          /\ f.file.exists /\ f.file.decodable
          /\ f.file.size <= 16 * 1024 * 1024
          /\ f.file.audio.num_samples >= 2 * 16000
          /\ f.file.audio.num_samples <= 30 * 16000
          /\ f.file.audio.peak >= 10
          /\ f.audio_path # "corrupt.wav"

NameFree ==
  /\ request.user_name # "x"
  /\ \A k \in 1 .. Len(request.registered_before) :
       request.registered_before[k].name # request.user_name

\* C26: a registration inserts exactly one profile, of the requested name
\* and with one signature per sample, when the name is free, 1 to 5 samples
\* were uploaded, every sample was processed successfully and the insert
\* succeeded; in every other case the store is as it was before the request.
C26_AllOrNothing ==
  request.op = "POST /register" =>
    LET before == request.registered_before
        n == Len(request.audio_files)
        succeeds == /\ NameFree /\ n >= 1 /\ n <= 5 /\ AllSamplesGood
                    /\ request.env.database = "ok"
    IN /\ succeeds <=> result.status = 201
       /\ succeeds =>
            /\ Len(registered_users) = Len(before) + 1
            /\ SubSeq(registered_users, 1, Len(before)) = before
            /\ registered_users[Len(before) + 1].name = request.user_name
            /\ Len(registered_users[Len(before) + 1].voice_embeddings) = n
       /\ ~succeeds => (registered_users = before /\ ~result.body.success)

\* With a profile in the store, a registration whose third sample the
\* encoder fails on has ended and left the store as it was.
C26_Witness ==
  /\ request.op = "POST /register"
  /\ Len(request.registered_before) = 1
  /\ NameFree
  /\ Len(request.audio_files) = 3
  /\ request.audio_files[1] = GoodSample
  /\ request.audio_files[2] = GoodSample
  /\ request.audio_files[3].audio_path = "corrupt.wav"
  /\ request.audio_files[3].filename = "voice.wav"
  /\ result.status = 500
  /\ registered_users = request.registered_before

----------------------------------------------------------------------------
(* Requests served at once, under SpecThreads *)

\* C22: whatever the interleaving of register and delete requests, no two
\* profiles of the collection have the same name.
C22_UniqueNames ==
  \A i, j \in 1 .. Len(registered_users) :
    i # j => registered_users[i].name # registered_users[j].name

\* The threads that have saved their upload and not yet removed it.
HoldsFiles(w) == threads[w].pc \in {"process", "extract", "insert", "cleanup"}

\* No two requests at work use the same temporary path.
OwnPaths ==
  \A v, w \in Workers :
    (v # w /\ HoldsFiles(v) /\ HoldsFiles(w)) =>
      ThreadPath(threads[v]) # ThreadPath(threads[w])

\* The upload of a request, and its preprocessed copy once written, stay in
\* the folder as the request wrote them until the request removes them.
OwnFiles ==
  \A w \in Workers :
    HoldsFiles(w) =>
      LET filepath == ThreadPath(threads[w])
          own == [path |-> filepath, content |-> threads[w].upload,
                  writer |-> w]
      IN /\ own \in upload_folder
         /\ threads[w].pc # "process" =>
              [own EXCEPT !.path = ProcessedPath(filepath)] \in upload_folder

\* An identification answers what the route answers for its own upload and
\* the profiles it read.
OwnResult ==
  \A w \in Workers :
    (threads[w].pc = "done" /\ threads[w].op = "POST /identify") =>
      /\ threads[w].response.status = 200
      /\ threads[w].response =
           identify_route(threads[w].upload, NoThreshold,
                          threads[w].registered, config,
                          QuietEnvironment(threads[w].timestamp), {}).response

\* C25: requests served at once never share a temporary path, none
\* overwrites or deletes a file of another, and each is answered from its
\* own upload alone.
C25_RequestsIsolated == OwnPaths /\ OwnFiles /\ OwnResult

====
